---- MODULE Spec2Model ----
(***************************************************************************)
(* Model of capsules/models/scae.py: ImageCapsule._build and the forward   *)
(* pass, loss and report of ImageAutoencoder.                              *)
(*                                                                         *)
(* Tensors are graph nodes.  A batched tensor is a sequence over the batch *)
(* axis.  Tensors whose numbers matter (presence probabilities, capsule    *)
(* assignments, scalar loss terms) carry integers.  The other tensors      *)
(* (poses, votes, features, embeddings) carry a tag naming the producer    *)
(* and the example they belong to.  Python's None is the empty tuple.      *)
(***************************************************************************)
EXTENDS Integers, Sequences, FiniteSets, TLC

VARIABLES pc, cfg, data, env, primary_caps, templates, h, locals, res,
          calls, err, loss, reports

vars == <<pc, cfg, data, env, primary_caps, templates, h, locals, res,
          calls, err, loss, reports>>

(* ------------------------------ bounds -------------------------------- *)
MaxBatch == 2
MaxCaps == 2
MaxVotes == 2
MaxCells == 8
MaxVars == 2
MaxL2 == 2
MaxWeight == 1
MaxActiveTerms == 2
MaxPoints == 4

None == <<>>

Batch(B) == 1..B

Get(d, k) == IF k \in DOMAIN d THEN d[k] ELSE None

RECURSIVE SumSeq(_)
SumSeq(s) == IF s = <<>> THEN 0 ELSE Head(s) + SumSeq(Tail(s))

RECURSIVE MaxSeq(_)
MaxSeq(s) ==
  IF Len(s) = 1 THEN s[1]
  ELSE LET m == MaxSeq(Tail(s)) IN IF Head(s) >= m THEN Head(s) ELSE m

RECURSIVE ConcatAll(_)
ConcatAll(ss) == IF ss = <<>> THEN <<>> ELSE Head(ss) \o ConcatAll(Tail(ss))

(* ----------------------- tensor operations ---------------------------- *)
\* snt.TileByDim([0], [n]): tf.tile along axis 0, the whole batch repeated n times
TileByDim0(t, n) == [i \in 1..(n * Len(t)) |-> t[((i - 1) % Len(t)) + 1]]

\* snt.MergeDims(0, 2): axes 0 and 1 flattened into one, row-major
MergeDims02(t) == ConcatAll(t)

\* elementwise product of two [rows, n] tensors
Mul(a, b) == [i \in 1..Len(a) |-> [j \in 1..Len(a[i]) |-> a[i][j] * b[i][j]]]

\* tf.reshape(t, [-1]) of a [B, n_caps, n_votes] tensor
Flatten3(t) == ConcatAll([b \in 1..Len(t) |-> ConcatAll(t[b])])

\* tf.reshape(flat, [d0, d1, d2]), row-major
Reshape3(flat, d0, d1, d2) ==
  [b \in 1..d0 |-> [c \in 1..d1 |-> [v \in 1..d2 |->
      flat[((b - 1) * d1 + (c - 1)) * d2 + v]]]]

\* tf.reduce_max(t, 2) of a [B, n_caps, n_votes] tensor
ReduceMax2(t) == [b \in 1..Len(t) |-> [c \in 1..Len(t[b]) |-> MaxSeq(t[b][c])]]

\* res.vote[Ellipsis, :-1, :] of a [B, n_caps, n_votes + 1, 6] tensor
DropLastVote(t) ==
  [b \in 1..Len(t) |-> [c \in 1..Len(t[b]) |-> SubSeq(t[b][c], 1, Len(t[b][c]) - 1)]]

Tagged(name, B) == [b \in Batch(B) |-> [t |-> name, ex |-> b]]

(* --------------------------- collaborators ---------------------------- *)
\* what the primary encoder returns for a batch of B examples
PrimaryCaps(B, presence, has_feature) ==
  [pose |-> Tagged("pose", B),
   presence |-> presence,
   feature |-> IF has_feature THEN Tagged("feature", B) ELSE None,
   img_embedding |-> Tagged("img_embedding", B)]

\* what _capsule.CapsuleLayer and _capsule.CapsuleLikelihood return
CapsuleOut(B, n_caps, n_votes, vote_presence, is_from_capsule) ==
  [vote |-> [b \in Batch(B) |-> [c \in 1..n_caps |-> [v \in 1..(n_votes + 1) |->
               [t |-> "vote", ex |-> b, caps |-> c, v |-> v]]]],
   scale |-> Tagged("scale", B),
   vote_presence |-> vote_presence,
   winner |-> Tagged("winner", B),
   soft_winner |-> Tagged("soft_winner", B),
   winner_pres |-> [b \in Batch(B) |-> [v \in 1..n_votes |-> 1]],
   soft_winner_pres |-> [b \in Batch(B) |-> [v \in 1..n_votes |-> 0]],
   posterior_mixing_probs |-> Tagged("posterior_mixing_probs", B),
   is_from_capsule |-> is_from_capsule]

Ones3(B, n_caps, n_votes) ==
  [b \in Batch(B) |-> [c \in 1..n_caps |-> [v \in 1..n_votes |-> 1]]]

ScalarNames ==
  {"rec_ll", "log_prob", "dynamic_weights_l2", "primary_caps_l1",
   "posterior_within_sparsity_loss", "posterior_between_sparsity_loss",
   "prior_within_sparsity_loss", "prior_between_sparsity_loss",
   "weight_decay_loss", "posterior_cls_xe", "prior_cls_xe"}

WeightNames ==
  {"caps_ll_weight", "dynamic_l2_weight", "primary_caps_sparsity_weight",
   "posterior_within_example_sparsity_weight",
   "posterior_between_example_sparsity_weight",
   "prior_within_example_sparsity_weight",
   "prior_between_example_sparsity_weight", "weight_decay"}

(* --------------------------- configuration ---------------------------- *)
SelectorTypes == {"enc", "soft", "hard"}

\* the keyword arguments of ImageAutoencoder.__init__ the forward pass reads
Config(vote_type, pres_type, feed_templates, sg_inpt, sg_target, label_key, weights) ==
  [input_key |-> "image",
   label_key |-> label_key,
   n_classes |-> 2,
   vote_type |-> vote_type,
   pres_type |-> pres_type,
   feed_templates |-> feed_templates,
   stop_grad_caps_inpt |-> sg_inpt,
   stop_grad_caps_target |-> sg_target,
   prep |-> "none",
   weights |-> weights]

UnitWeights == [w \in WeightNames |-> 1]

SampleScalars ==
  [rec_ll |-> 1, log_prob |-> 2, dynamic_weights_l2 |-> 3, primary_caps_l1 |-> 4,
   posterior_within_sparsity_loss |-> 5, posterior_between_sparsity_loss |-> 6,
   prior_within_sparsity_loss |-> 7, prior_between_sparsity_loss |-> 8,
   posterior_cls_xe |-> 9, prior_cls_xe |-> 10,
   posterior_cls_acc |-> 0, prior_cls_acc |-> 1]

\* a trainable variable: its name, character by character, and tf.nn.l2_loss of it
Var(name, l2) == [name |-> name, l2 |-> l2]

SampleVariables ==
  << Var(<<"w", ":", "0">>, 1), Var(<<"b", ":", "0">>, 1) >>

\* the collaborators' behaviour during one forward pass
Env(two_arg, one_arg, prep, B, n_caps, n_votes, primary, capsule, scalars, variables) ==
  [two_arg |-> two_arg, one_arg |-> one_arg, prep |-> prep,
   B |-> B, n_caps |-> n_caps, n_votes |-> n_votes,
   primary |-> primary, capsule |-> capsule,
   scalars |-> scalars, variables |-> variables]

SamplePresence(B, n_votes) == [b \in Batch(B) |-> [v \in 1..n_votes |-> 1]]

SampleAssignment(B, n_votes) == [b \in Batch(B) |-> [v \in 1..n_votes |-> 0]]

SampleEnv(two_arg, one_arg, prep, has_feature) ==
  Env(two_arg, one_arg, prep, MaxBatch, MaxCaps, MaxVotes,
      PrimaryCaps(MaxBatch, SamplePresence(MaxBatch, MaxVotes), has_feature),
      CapsuleOut(MaxBatch, MaxCaps, MaxVotes, Ones3(MaxBatch, MaxCaps, MaxVotes),
                 SampleAssignment(MaxBatch, MaxVotes)),
      SampleScalars, SampleVariables)

\* outcomes of the two-argument encoder call, of preparing its input, and of
\* the one-argument call
TwoArgOutcomes == {"ok", "arity", "type_error", "value_error"}
PrepOutcomes == {"ok", "type_error", "value_error"}
OneArgOutcomes == {"ok", "type_error"}

ExcType(outcome) ==
  IF outcome \in {"arity", "type_error"} THEN "TypeError" ELSE "ValueError"

(* ------------------------- ImageAutoencoder --------------------------- *)
\* _img: data[self._input_key], sobel edges when prep == 'sobel'
Img(d, c, prep) ==
  IF prep = "sobel" THEN [sobel |-> d[c.input_key]] ELSE [raw |-> d[c.input_key]]

\* _label: data.get(self._label_key, None)
Label(d, c) == Get(d, c.label_key)

StopGradient(t) == [t |-> t.t, sg |-> TRUE]

Node(name) == [t |-> name, sg |-> FALSE]

\* input_pose: concat of pose and 1 - presence, then (after the stop_gradient)
\* of the part feature, along the last axis
InputPose(c, caps) ==
  LET parts == << Node("pose"), Node("1-presence") >>
      stopped == IF c.stop_grad_caps_inpt
                   THEN [i \in 1..Len(parts) |-> StopGradient(parts[i])]
                   ELSE parts
  IN  IF caps.feature # None THEN Append(stopped, Node("feature")) ELSE stopped

InputPres(c) ==
  IF c.stop_grad_caps_inpt THEN StopGradient(Node("presence")) ELSE Node("presence")

TargetPose(c) ==
  IF c.stop_grad_caps_target THEN StopGradient(Node("pose")) ELSE Node("pose")

TargetPres(c) ==
  IF c.stop_grad_caps_target THEN StopGradient(Node("presence")) ELSE Node("presence")

\* self._primary_decoder.make_templates(n_templates, feature): the gen-th
\* tensor the template generator has built in this pass
MakeTemplates(gen, n_templates, feature, B) ==
  [t |-> "templates", gen |-> gen, n_templates |-> n_templates,
   batch |-> IF feature = None THEN 1 ELSE B]

\* the template-augmented encoder input of the try block
PoseWithTemplates(c, input_pose, tpl) ==
  IF c.feed_templates
    THEN Append(input_pose,
                IF c.stop_grad_caps_inpt THEN StopGradient(Node("templates"))
                                          ELSE Node("templates"))
    ELSE input_pose

HasCall(fn) == \E i \in 1..Len(calls) : calls[i].fn = fn

CountCalls(fn) == Cardinality({i \in 1..Len(calls) : calls[i].fn = fn})

Raise(exc) == pc' = "error" /\ err' = exc

\* lines 168-191: the primary encoder and the encoder's inputs and targets
PrimaryEncoderStep ==
  /\ pc = "start"
  /\ primary_caps' = env.primary
  /\ calls' = Append(calls, [fn |-> "primary_encoder", inpt |-> Img(data, cfg, "False")])
  /\ locals' = [input_x |-> Img(data, cfg, "False"),
                target_x |-> Img(data, cfg, cfg.prep),
                batch_size |-> Len(data[cfg.input_key]),
                input_pose |-> InputPose(cfg, env.primary),
                input_pres |-> InputPres(cfg),
                target_pose |-> TargetPose(cfg),
                target_pres |-> TargetPres(cfg)]
  /\ pc' = "make_templates"
  /\ UNCHANGED <<cfg, data, env, templates, h, res, err, loss, reports>>

\* lines 196-198
MakeTemplatesStep ==
  /\ pc = "make_templates"
  /\ templates' = MakeTemplates(CountCalls("make_templates") + 1,
                                Len(primary_caps.presence[1]),
                                primary_caps.feature, locals.batch_size)
  /\ calls' = Append(calls, [fn |-> "make_templates"])
  /\ pc' = "encoder"
  /\ UNCHANGED <<cfg, data, env, primary_caps, h, locals, res, err, loss, reports>>

\* whether the except clause of line 215 catches the failure of the try block
Caught(outcome) == ExcType(outcome) = "TypeError"

\* lines 200-216: the two-argument encoder call and its fallback
EncoderStep ==
  /\ pc = "encoder"
  /\ LET prep_out == IF cfg.feed_templates THEN env.prep ELSE "ok"
         pwt == PoseWithTemplates(cfg, locals.input_pose, templates)
         two_call == [fn |-> "encoder", nargs |-> 2, inpt |-> pwt]
         one_call == [fn |-> "encoder", nargs |-> 1, inpt |-> locals.input_pose]
         try_out == IF prep_out # "ok" THEN prep_out ELSE env.two_arg
         calls1 == IF prep_out = "ok" THEN Append(calls, two_call) ELSE calls
     IN  IF try_out = "ok"
           THEN /\ h' = two_call
                /\ calls' = calls1
                /\ pc' = "decoder"
                /\ err' = err
           ELSE IF Caught(try_out)
             THEN /\ calls' = Append(calls1, one_call)
                  /\ IF env.one_arg = "ok"
                       THEN h' = one_call /\ pc' = "decoder" /\ err' = err
                       ELSE h' = h /\ Raise(ExcType(env.one_arg))
             ELSE /\ calls' = calls1
                  /\ h' = h
                  /\ Raise(ExcType(try_out))
  /\ UNCHANGED <<cfg, data, env, primary_caps, templates, locals, res, loss, reports>>


(* ---------------------------- ImageCapsule ---------------------------- *)
\* tf.reduce_sum(t, 2) of a [B, n_caps, n_votes] tensor
ReduceSum2(t) == [b \in 1..Len(t) |-> [c \in 1..Len(t[b]) |-> SumSeq(t[b][c])]]

\* a capsule presence summed over the votes
CapsPresenceProbSum(vote_presence_prob, batch_size, n_caps, n_votes) ==
  ReduceSum2(Reshape3(Flatten3(vote_presence_prob), batch_size, n_caps, n_votes))

\* lines 84-86: reduce_max over the votes axis of vote_presence_prob reshaped
\* to [batch_size, n_caps, n_votes]
CapsPresenceProb(vote_presence_prob, batch_size, n_caps, n_votes) ==
  ReduceMax2(Reshape3(Flatten3(vote_presence_prob), batch_size, n_caps, n_votes))

\* lines 69-89: ImageCapsule._build(h, x, presence)
ImageCapsuleBuild(e) ==
  LET raw == e.capsule
      vote == DropLastVote(raw.vote)
  IN  [vote |-> Reshape3(Flatten3(vote), e.B, e.n_caps, e.n_votes),
       scale |-> raw.scale,
       vote_presence |-> raw.vote_presence,
       winner |-> raw.winner,
       soft_winner |-> raw.soft_winner,
       winner_pres |-> raw.winner_pres,
       soft_winner_pres |-> raw.soft_winner_pres,
       posterior_mixing_probs |-> raw.posterior_mixing_probs,
       is_from_capsule |-> raw.is_from_capsule,
       log_prob |-> e.scalars.log_prob,
       dynamic_weights_l2 |-> e.scalars.dynamic_weights_l2,
       caps_presence_prob |->
         CapsPresenceProb(raw.vote_presence, e.B, e.n_caps, e.n_votes)]

\* lines 218-219: res = self._decoder(h, target_pose, target_pres)
DecoderStep ==
  /\ pc = "decoder"
  /\ calls' = Append(calls, [fn |-> "decoder", h |-> h,
                             x |-> locals.target_pose,
                             presence |-> locals.target_pres])
  /\ res' = ImageCapsuleBuild(env) @@ [primary_presence |-> primary_caps.presence]
  /\ pc' = "vote_type"
  /\ UNCHANGED <<cfg, data, env, primary_caps, templates, h, locals, err, loss, reports>>

(* ------------------------ vote and presence type ---------------------- *)
PrimaryDecVote(vote_type, caps, r) ==
  CASE vote_type = "enc" -> caps.pose
    [] vote_type = "soft" -> r.soft_winner
    [] vote_type = "hard" -> r.winner

PrimaryDecPres(pres_type, caps, r) ==
  CASE pres_type = "enc" -> caps.presence
    [] pres_type = "soft" -> r.soft_winner_pres
    [] pres_type = "hard" -> r.winner_pres

\* a pass that falls back to the soft winner instead of raising
SelectVoteStepDefaulting ==
  /\ pc = "vote_type"
  /\ locals' = locals @@ [primary_dec_vote |->
        IF cfg.vote_type \in SelectorTypes
          THEN PrimaryDecVote(cfg.vote_type, primary_caps, res)
          ELSE res.soft_winner]
  /\ pc' = "pres_type"
  /\ UNCHANGED <<cfg, data, env, primary_caps, templates, h, res, calls, err, loss,
                 reports>>

\* lines 221-228
SelectVoteStep ==
  /\ pc = "vote_type"
  /\ IF cfg.vote_type \in SelectorTypes
       THEN /\ locals' = locals @@ [primary_dec_vote |->
                            PrimaryDecVote(cfg.vote_type, primary_caps, res)]
            /\ pc' = "pres_type"
            /\ err' = err
       ELSE /\ locals' = locals
            /\ Raise("ValueError")
  /\ UNCHANGED <<cfg, data, env, primary_caps, templates, h, res, calls, loss, reports>>

\* lines 230-237
SelectPresStep ==
  /\ pc = "pres_type"
  /\ IF cfg.pres_type \in SelectorTypes
       THEN /\ locals' = locals @@ [primary_dec_pres |->
                            PrimaryDecPres(cfg.pres_type, primary_caps, res)]
            /\ pc' = "bottom_up"
            /\ err' = err
       ELSE /\ locals' = locals
            /\ Raise("ValueError")
  /\ UNCHANGED <<cfg, data, env, primary_caps, templates, h, res, calls, loss, reports>>

(* --------------------------- the four decodes ------------------------- *)
Args(pose, presence, template_feature, img_embedding) ==
  [pose |-> pose, presence |-> presence,
   template_feature |-> template_feature, img_embedding |-> img_embedding]

\* a call self._primary_decoder(pose, presence, template_feature=, img_embedding=)
DecodeCall(path, args) == [fn |-> "primary_decoder", path |-> path, args |-> args]

\* what the call returns: a record computed from its arguments
Reconstruction(args) ==
  [pdf |-> [of |-> args], transformed_templates |-> [of |-> args]]

\* lines 239-243
BottomUpArgs(caps, r) ==
  Args(caps.pose, caps.presence, caps.feature, caps.img_embedding)

\* the top-down decode fed with the selected vote
TopDownArgsSelected(caps, r) ==
  Args(locals.primary_dec_vote, caps.presence, caps.feature, caps.img_embedding)

\* lines 245-249
TopDownArgs(caps, r) ==
  Args(r.winner, caps.presence, caps.feature, caps.img_embedding)

\* lines 251-255
RecArgs(caps, loc) ==
  Args(loc.primary_dec_vote, loc.primary_dec_pres, caps.feature, caps.img_embedding)

\* lines 257-270
PerCapsArgs(caps, r) ==
  LET n == Len(r.vote[1])
      tiled_presence == TileByDim0(caps.presence, n)
      tiled_feature == IF caps.feature # None THEN TileByDim0(caps.feature, n)
                                              ELSE None
      tiled_img_embedding == TileByDim0(caps.img_embedding, n)
  IN  Args(MergeDims02(r.vote),
           Mul(MergeDims02(r.vote_presence), tiled_presence),
           tiled_feature, tiled_img_embedding)

Decode(path, field, args, next) ==
  /\ calls' = Append(calls, DecodeCall(path, args))
  /\ res' = res @@ (field :> Reconstruction(args))
  /\ pc' = next
  /\ UNCHANGED <<cfg, data, env, primary_caps, templates, h, locals, err, loss, reports>>

BottomUpStep ==
  /\ pc = "bottom_up"
  /\ Decode("bottom_up", "bottom_up_rec", BottomUpArgs(primary_caps, res), "top_down")

TopDownStep ==
  /\ pc = "top_down"
  /\ Decode("top_down", "top_down_rec", TopDownArgs(primary_caps, res), "rec")

\* the primary decode; rec is a local of _build
RecStep ==
  /\ pc = "rec"
  /\ calls' = Append(calls, DecodeCall("rec", RecArgs(primary_caps, locals)))
  /\ locals' = locals @@ [rec |-> Reconstruction(RecArgs(primary_caps, locals))]
  /\ pc' = "per_caps"
  /\ UNCHANGED <<cfg, data, env, primary_caps, templates, h, res, err, loss, reports>>

PerCapsStep ==
  /\ pc = "per_caps"
  /\ Decode("per_caps", "top_down_per_caps_rec", PerCapsArgs(primary_caps, res),
            "metrics")


(* ------------------- metrics, sparsity, classification ---------------- *)
\* the result's templates generated afresh instead of kept
ResTemplatesRegenerated(tpl) == [tpl EXCEPT !.gen = tpl.gen + 1]

\* line 272: the templates kept in the result
ResTemplates(tpl) == tpl

\* lines 272-299
MetricsStep ==
  /\ pc = "metrics"
  /\ res' = res @@
       [templates |-> ResTemplates(templates),
        template_pres |-> primary_caps.presence,
        used_templates |-> locals.rec.transformed_templates,
        rec_mode |-> [mode |-> locals.rec.pdf],
        rec_mean |-> [mean |-> locals.rec.pdf],
        mse_per_pixel |-> [target |-> locals.target_x, mode |-> locals.rec.pdf],
        rec_ll_per_pixel |-> [target |-> locals.target_x, pdf |-> locals.rec.pdf],
        rec_ll |-> env.scalars.rec_ll,
        posterior_within_sparsity_loss |-> env.scalars.posterior_within_sparsity_loss,
        posterior_between_sparsity_loss |-> env.scalars.posterior_between_sparsity_loss,
        prior_within_sparsity_loss |-> env.scalars.prior_within_sparsity_loss,
        prior_between_sparsity_loss |-> env.scalars.prior_between_sparsity_loss]
  /\ calls' = calls \o << [fn |-> "sparsity_loss", of |-> "posterior"],
                          [fn |-> "sparsity_loss", of |-> "prior"] >>
  /\ pc' = "probe"
  /\ UNCHANGED <<cfg, data, env, primary_caps, templates, h, locals, err, loss, reports>>

\* lines 301-312
ProbeStep ==
  /\ pc = "probe"
  /\ IF Label(data, cfg) # None
       THEN /\ res' = res @@
                 [posterior_cls_xe |-> env.scalars.posterior_cls_xe,
                  posterior_cls_acc |-> env.scalars.posterior_cls_acc,
                  prior_cls_xe |-> env.scalars.prior_cls_xe,
                  prior_cls_acc |-> env.scalars.prior_cls_acc]
            /\ calls' = calls \o
                 << [fn |-> "classification_probe", of |-> "posterior",
                     labeled |-> Get(data, "labeled")],
                    [fn |-> "classification_probe", of |-> "prior",
                     labeled |-> Get(data, "labeled")] >>
       ELSE UNCHANGED <<res, calls>>
  /\ pc' = "best_cls_acc"
  /\ UNCHANGED <<cfg, data, env, primary_caps, templates, h, locals, err, loss, reports>>

Maximum(a, b) == IF a >= b THEN a ELSE b

\* line 314: reads res.prior_cls_acc and res.posterior_cls_acc
BestAccStep ==
  /\ pc = "best_cls_acc"
  /\ IF {"prior_cls_acc", "posterior_cls_acc"} \subseteq DOMAIN res
       THEN /\ res' = res @@ [best_cls_acc |->
                                Maximum(res.prior_cls_acc, res.posterior_cls_acc)]
            /\ pc' = "weight_decay"
            /\ err' = err
       ELSE /\ res' = res
            /\ Raise("AttributeError")
  /\ UNCHANGED <<cfg, data, env, primary_caps, templates, h, locals, calls, loss, reports>>

(* ----------------------------- weight decay --------------------------- *)
\* Python's `pattern in name`
Contains(name, pattern) ==
  \E i \in 1..(Len(name) - Len(pattern) + 1) :
      SubSeq(name, i, i + Len(pattern) - 1) = pattern

\* a traversal that keeps every trainable variable
IsDecayedAll(name) == TRUE

\* line 322
IsDecayed(name) ==
  \/ Contains(name, <<"w", ":">>)
  \/ Contains(name, <<"w", "e", "i", "g", "h", "t", "s", ":">>)

RECURSIVE DecayLossesList(_)
\* lines 320-323
DecayLossesList(variables) ==
  IF variables = <<>> THEN <<>>
  ELSE (IF IsDecayed(Head(variables).name) THEN <<Head(variables).l2>> ELSE <<>>)
         \o DecayLossesList(Tail(variables))

\* lines 319-326
WeightDecayLoss(weight_decay, variables) ==
  IF weight_decay > 0 THEN SumSeq(DecayLossesList(variables)) ELSE 0

\* lines 316-326
WeightDecayStep ==
  /\ pc = "weight_decay"
  /\ res' = res @@
       [primary_caps_l1 |-> env.scalars.primary_caps_l1,
        weight_decay_loss |-> WeightDecayLoss(cfg.weights.weight_decay, env.variables)]
  /\ calls' = IF cfg.weights.weight_decay > 0
                THEN Append(calls, [fn |-> "trainable_variables"])
                ELSE calls
  /\ pc' = "loss"
  /\ UNCHANGED <<cfg, data, env, primary_caps, templates, h, locals, err, loss, reports>>

(* -------------------------------- _loss ------------------------------- *)
\* a loss that adds the between-example prior sparsity term
LossPriorBetweenAdded(c, r) ==
  LET w == c.weights IN
    (0 - r.rec_ll) - w.caps_ll_weight * r.log_prob
      + w.dynamic_l2_weight * r.dynamic_weights_l2
      + w.primary_caps_sparsity_weight * r.primary_caps_l1
      + w.posterior_within_example_sparsity_weight * r.posterior_within_sparsity_loss
      - w.posterior_between_example_sparsity_weight * r.posterior_between_sparsity_loss
      + w.prior_within_example_sparsity_weight * r.prior_within_sparsity_loss
      + w.prior_between_example_sparsity_weight * r.prior_between_sparsity_loss
      + w.weight_decay * r.weight_decay_loss
      + (IF {"posterior_cls_xe", "prior_cls_xe"} \subseteq DOMAIN r
           THEN r.posterior_cls_xe + r.prior_cls_xe ELSE 0)

\* lines 333-345
BaseLoss(c, r) ==
  LET w == c.weights IN
    (0 - r.rec_ll) - w.caps_ll_weight * r.log_prob
      + w.dynamic_l2_weight * r.dynamic_weights_l2
      + w.primary_caps_sparsity_weight * r.primary_caps_l1
      + w.posterior_within_example_sparsity_weight * r.posterior_within_sparsity_loss
      - w.posterior_between_example_sparsity_weight * r.posterior_between_sparsity_loss
      + w.prior_within_example_sparsity_weight * r.prior_within_sparsity_loss
      - w.prior_between_example_sparsity_weight * r.prior_between_sparsity_loss
      + w.weight_decay * r.weight_decay_loss

\* lines 331-352: the classification terms are added unless reading them
\* raises AttributeError
Loss(c, r) ==
  IF {"posterior_cls_xe", "prior_cls_xe"} \subseteq DOMAIN r
    THEN BaseLoss(c, r) + (r.posterior_cls_xe + r.prior_cls_xe)
    ELSE BaseLoss(c, r)

LossStep ==
  /\ pc = "loss"
  /\ loss' = Loss(cfg, res)
  /\ pc' = "report"
  /\ UNCHANGED <<cfg, data, env, primary_caps, templates, h, locals, res, calls, err,
                 reports>>

(* ------------------------------- _report ------------------------------ *)
\* tf.one_hot(index, depth): all zeros when the index is out of range
OneHot(index, depth) == [k \in 1..depth |-> IF index = k - 1 THEN 1 ELSE 0]

\* a one-hot encoding that keeps the column of the unassigned points
CapsuleOneHotUnshifted(is_from_capsule, n_caps) ==
  [b \in 1..Len(is_from_capsule) |-> [p \in 1..Len(is_from_capsule[b]) |->
      SubSeq(OneHot(is_from_capsule[b][p] + 1, n_caps + 1), 1, n_caps)]]

\* lines 360-362: one_hot(is_from_capsule + ones, depth=n_caps + 1)[Ellipsis, 1:]
CapsuleOneHot(is_from_capsule, n_caps) ==
  [b \in 1..Len(is_from_capsule) |-> [p \in 1..Len(is_from_capsule[b]) |->
      Tail(OneHot(is_from_capsule[b][p] + 1, n_caps + 1))]]

\* line 364: tf.reduce_sum(capsule_one_hot, 1)
NumPerGroup(one_hot, n_caps) ==
  [b \in 1..Len(one_hot) |-> [k \in 1..n_caps |->
      SumSeq([p \in 1..Len(one_hot[b]) |-> one_hot[b][p][k]])]]

\* line 365: tf.reduce_mean(..., 0), kept as the fraction num / den
NumPerGroupPerBatch(num_per_group, n_caps) ==
  [k \in 1..n_caps |->
      [num |-> SumSeq([b \in 1..Len(num_per_group) |-> num_per_group[b][k]]),
       den |-> Len(num_per_group)]]

\* lines 367-370: the entries 'votes_per_capsule_k', k from 0
VotesPerCapsule(is_from_capsule, n_caps) ==
  LET v == NumPerGroupPerBatch(
             NumPerGroup(CapsuleOneHot(is_from_capsule, n_caps), n_caps), n_caps)
  IN  [k \in 0..(n_caps - 1) |-> v[k + 1]]

\* lines 354-375
ReportStep ==
  /\ pc = "report"
  /\ reports' = [votes_per_capsule |-> VotesPerCapsule(res.is_from_capsule, env.n_caps)]
  /\ pc' = "done"
  /\ UNCHANGED <<cfg, data, env, primary_caps, templates, h, locals, res, calls, err,
                 loss>>


(* --------------------------- specifications --------------------------- *)
Empty == [x \in {} |-> None]

\* the state before _build(data) of a model built with configuration c,
\* whose collaborators behave as e
InitPass(c, d, e) ==
  /\ pc = "start"
  /\ cfg = c
  /\ data = d
  /\ env = e
  /\ primary_caps = None
  /\ templates = None
  /\ h = None
  /\ locals = Empty
  /\ res = Empty
  /\ calls = <<>>
  /\ err = "none"
  /\ loss = 0
  /\ reports = Empty

Unlabelled(B) == [image |-> Tagged("image", B)]

Labelled(B) == [image |-> Tagged("image", B), label |-> [b \in Batch(B) |-> 1]]

DefaultConfig == Config("soft", "enc", TRUE, FALSE, FALSE, "label", UnitWeights)

\* every selector, flag and collaborator outcome, on one sample batch
Init ==
  \E vt \in SelectorTypes \cup {"bogus"}, pt \in SelectorTypes \cup {"bogus"},
     feed \in BOOLEAN, sgi \in BOOLEAN, sgt \in BOOLEAN,
     lk \in {"label", "None"},
     d \in {Unlabelled(MaxBatch), Labelled(MaxBatch)},
     ta \in TwoArgOutcomes, oa \in OneArgOutcomes, prep \in PrepOutcomes,
     hf \in BOOLEAN :
    InitPass(Config(vt, pt, feed, sgi, sgt, lk, UnitWeights),
             d, SampleEnv(ta, oa, prep, hf))

Next ==
  \/ PrimaryEncoderStep
  \/ MakeTemplatesStep
  \/ EncoderStep
  \/ DecoderStep
  \/ SelectVoteStep
  \/ SelectPresStep
  \/ BottomUpStep
  \/ TopDownStep
  \/ RecStep
  \/ PerCapsStep
  \/ MetricsStep
  \/ ProbeStep
  \/ BestAccStep
  \/ WeightDecayStep
  \/ LossStep
  \/ ReportStep

Spec == Init /\ [][Next]_vars


\* ImageCapsule._build on every vote presence tensor of at most MaxCells cells;
\* the value 2 lies outside [0, 1]
VoteProbVals == {0, 1, 2}

Tensor3(B, n_caps, n_votes, S) == [Batch(B) -> [1..n_caps -> [1..n_votes -> S]]]

OkEnv(B, n_caps, n_votes, presence, has_feature, vote_presence, is_from_capsule,
      scalars, variables) ==
  Env("ok", "ok", "ok", B, n_caps, n_votes,
      PrimaryCaps(B, presence, has_feature),
      CapsuleOut(B, n_caps, n_votes, vote_presence, is_from_capsule),
      scalars, variables)

InitCaps ==
  \E B \in 1..MaxBatch, n_caps \in 1..MaxCaps, n_votes \in 1..MaxVotes :
    /\ B * n_caps * n_votes <= MaxCells
    /\ \E vp \in Tensor3(B, n_caps, n_votes, VoteProbVals) :
         InitPass(DefaultConfig, Labelled(B),
                  OkEnv(B, n_caps, n_votes, SamplePresence(B, n_votes), FALSE, vp,
                        SampleAssignment(B, n_votes), SampleScalars, SampleVariables))

NextCaps ==
  \/ PrimaryEncoderStep
  \/ MakeTemplatesStep
  \/ EncoderStep
  \/ DecoderStep

SpecCaps == InitCaps /\ [][NextCaps]_vars

\* the per-capsule decode on every batch size, capsule count and presence
InitTile ==
  \E B \in 1..MaxBatch, n_caps \in 1..MaxCaps, n_votes \in 1..MaxVotes,
     hf \in BOOLEAN :
    \E presence \in [Batch(B) -> [1..n_votes -> {0, 1}]],
       vp \in Tensor3(B, n_caps, n_votes, {0, 1}) :
      InitPass(DefaultConfig, Labelled(B),
               OkEnv(B, n_caps, n_votes, presence, hf, vp,
                     SampleAssignment(B, n_votes), SampleScalars, SampleVariables))

NextTile ==
  \/ PrimaryEncoderStep
  \/ MakeTemplatesStep
  \/ EncoderStep
  \/ DecoderStep
  \/ SelectVoteStep
  \/ SelectPresStep
  \/ BottomUpStep
  \/ TopDownStep
  \/ RecStep
  \/ PerCapsStep

SpecTile == InitTile /\ [][NextTile]_vars

\* the weight decay of _build on every short list of trainable variables
VarNames ==
  { <<"l", "/", "w", ":", "0">>,
    <<"l", "/", "b", ":", "0">>,
    <<"w", "e", "i", "g", "h", "t", "s", ":", "0">>,
    <<"b", "i", "a", "s", "e", "s", ":", "0">>,
    <<"b", "i", "a", "s", ":", "0">>,
    <<"t", "e", "m", "p", "l", "a", "t", "e", "s", ":", "0">> }

VarSet == {Var(n, l2) : n \in VarNames, l2 \in 1..MaxL2}

VarLists == UNION {[1..n -> VarSet] : n \in 0..MaxVars}

InitDecay ==
  \E wd \in (0 - 1)..MaxWeight, vs \in VarLists :
    InitPass(Config("soft", "enc", TRUE, FALSE, FALSE, "label",
                    [UnitWeights EXCEPT !["weight_decay"] = wd]),
             Labelled(1),
             OkEnv(1, 1, 1, SamplePresence(1, 1), FALSE, Ones3(1, 1, 1),
                   SampleAssignment(1, 1), SampleScalars, vs))

NextDecay ==
  \/ PrimaryEncoderStep
  \/ MakeTemplatesStep
  \/ EncoderStep
  \/ DecoderStep
  \/ SelectVoteStep
  \/ SelectPresStep
  \/ BottomUpStep
  \/ TopDownStep
  \/ RecStep
  \/ PerCapsStep
  \/ MetricsStep
  \/ ProbeStep
  \/ BestAccStep
  \/ WeightDecayStep

SpecDecay == InitDecay /\ [][NextDecay]_vars

\* a whole labelled pass and its report, on every assignment of at most
\* MaxPoints points to capsules (-1: explained by no capsule)
InitReport ==
  \E B \in 1..MaxBatch, n_caps \in 1..MaxCaps, n_points \in 1..MaxVotes :
    /\ B * n_points <= MaxPoints
    /\ \E ifc \in [Batch(B) -> [1..n_points -> (0 - 1)..(n_caps - 1)]] :
         InitPass(DefaultConfig, Labelled(B),
                  OkEnv(B, n_caps, n_points, SamplePresence(B, n_points), FALSE,
                        Ones3(B, n_caps, n_points), ifc, SampleScalars,
                        SampleVariables))

SpecReport == InitReport /\ [][Next]_vars

\* _loss(data, res) on result records with at most MaxActiveTerms non-zero
\* terms, with and without the classification fields, under weights that are
\* all equal but one
BaseTerms == ScalarNames \ {"posterior_cls_xe", "prior_cls_xe"}

TermRecords(fields) ==
  { [x \in fields |-> IF x \in DOMAIN vals THEN vals[x] ELSE 0] :
      vals \in UNION { [S -> {0 - 1, 1}] :
                         S \in {T \in SUBSET fields : Cardinality(T) <= MaxActiveTerms} } }

WeightRecords ==
  { [w \in WeightNames |-> IF w = x THEN wx ELSE wb] :
      wb \in 0..MaxWeight, x \in WeightNames, wx \in 0..MaxWeight }

InitLoss ==
  /\ pc = "loss"
  /\ \E w \in WeightRecords, labelled \in BOOLEAN :
       /\ cfg = Config("soft", "enc", TRUE, FALSE, FALSE,
                       IF labelled THEN "label" ELSE "None", w)
       /\ data = IF labelled THEN Labelled(1) ELSE Unlabelled(1)
       /\ res \in TermRecords(IF labelled THEN ScalarNames ELSE BaseTerms)
  /\ env = None
  /\ primary_caps = None
  /\ templates = None
  /\ h = None
  /\ locals = Empty
  /\ calls = <<>>
  /\ err = "none"
  /\ loss = 0
  /\ reports = Empty

NextLoss == LossStep

SpecLoss == InitLoss /\ [][NextLoss]_vars


(* ------------------------------- claims ------------------------------- *)
Started == pc # "start"

Past(stage) ==
  LET order == << "start", "make_templates", "encoder", "decoder", "vote_type",
                  "pres_type", "bottom_up", "top_down", "rec", "per_caps",
                  "metrics", "probe", "best_cls_acc", "weight_decay", "loss",
                  "report", "done" >>
      Index(x) == CHOOSE i \in 1..Len(order) : order[i] = x
  IN  pc # "error" /\ Index(pc) > Index(stage)

DecodeCalls == {i \in 1..Len(calls) : calls[i].fn = "primary_decoder"}

DecodeCallOf(path) ==
  calls[CHOOSE i \in DecodeCalls : calls[i].path = path]

HasDecode(path) == \E i \in DecodeCalls : calls[i].path = path

InvalidSelectors ==
  cfg.vote_type \notin SelectorTypes \/ cfg.pres_type \notin SelectorTypes

ClsFields == {"posterior_cls_xe", "prior_cls_xe"}

\* C1: with no label the forward pass and _loss raise no error for the
\* missing classification fields, the classification probe is never called,
\* the result carries no posterior_cls_xe / prior_cls_xe, and the loss, once
\* computed, is the sum of the non-classification terms
C1_NoLabelPassCompletes ==
  (Started /\ Label(data, cfg) = None) =>
    /\ err # "AttributeError"
    /\ ~HasCall("classification_probe")
    /\ ClsFields \cap DOMAIN res = {}
    /\ (pc \in {"report", "done"} => loss = BaseLoss(cfg, res))

CollaboratorsReturn ==
  /\ env.two_arg = "ok"
  /\ cfg.feed_templates => env.prep = "ok"

C3_FallbackOnlyOnArity ==
  LET prep_out == IF cfg.feed_templates THEN env.prep ELSE "ok"
      failure == IF prep_out # "ok" THEN prep_out ELSE env.two_arg
      one_arg_called == \E i \in 1..Len(calls) :
                           calls[i].fn = "encoder" /\ calls[i].nargs = 1
  IN  (Started /\ pc \notin {"make_templates", "encoder"}) =>
        /\ (one_arg_called => failure = "arity")
        /\ (failure \in {"type_error", "value_error"} =>
              pc = "error" /\ err = ExcType(failure) /\ ~one_arg_called)

\* the signed, weighted terms of the objective: <<sign, weight, term>>
C4_Terms ==
  << << 0 - 1, "one", "rec_ll" >>,
     << 0 - 1, "caps_ll_weight", "log_prob" >>,
     << 1, "dynamic_l2_weight", "dynamic_weights_l2" >>,
     << 1, "primary_caps_sparsity_weight", "primary_caps_l1" >>,
     << 1, "posterior_within_example_sparsity_weight",
        "posterior_within_sparsity_loss" >>,
     << 0 - 1, "posterior_between_example_sparsity_weight",
        "posterior_between_sparsity_loss" >>,
     << 1, "prior_within_example_sparsity_weight", "prior_within_sparsity_loss" >>,
     << 0 - 1, "prior_between_example_sparsity_weight",
        "prior_between_sparsity_loss" >>,
     << 1, "weight_decay", "weight_decay_loss" >> >>

C4_Term(t) ==
  t[1] * (IF t[2] = "one" THEN 1 ELSE cfg.weights[t[2]]) * res[t[3]]

\* C4: the loss is -rec_ll - w_caps_ll*log_prob + w_dynamic_l2*dynamic_weights_l2
\* + w_primary_sparsity*primary_caps_l1 + w_post_within*posterior_within
\* - w_post_between*posterior_between + w_prior_within*prior_within
\* - w_prior_between*prior_between + w_weight_decay*weight_decay_loss, plus
\* posterior_cls_xe + prior_cls_xe exactly when label information is available
C4_LossFormula ==
  pc = "report" =>
    loss = SumSeq([i \in 1..Len(C4_Terms) |-> C4_Term(C4_Terms[i])])
           + (IF Label(data, cfg) # None
                THEN res.posterior_cls_xe + res.prior_cls_xe ELSE 0)

C4_Witness ==
  /\ pc = "report"
  /\ Label(data, cfg) = None
  /\ cfg.weights.prior_between_example_sparsity_weight = 1
  /\ cfg.weights.prior_within_example_sparsity_weight = 0
  /\ res.prior_between_sparsity_loss = 1
  /\ res.rec_ll = 1
  /\ loss = 0 - 2

C6_OnlyPrimaryDecodeDependsOnSelectors ==
  /\ HasDecode("bottom_up") =>
       DecodeCallOf("bottom_up").args =
         Args(env.primary.pose, env.primary.presence, env.primary.feature,
              env.primary.img_embedding)
  /\ HasDecode("top_down") =>
       DecodeCallOf("top_down").args =
         Args(env.capsule.winner, env.primary.presence, env.primary.feature,
              env.primary.img_embedding)
  /\ HasDecode("per_caps") =>
       LET a == DecodeCallOf("per_caps").args
           rows == 1..(env.B * env.n_caps)
           ExV(i) == ((i - 1) \div env.n_caps) + 1
           CapsV(i) == ((i - 1) % env.n_caps) + 1
           ExT(i) == ((i - 1) % env.B) + 1
       IN  /\ a.pose = [i \in rows |-> [v \in 1..env.n_votes |->
                          env.capsule.vote[ExV(i)][CapsV(i)][v]]]
           /\ a.presence = [i \in rows |-> [v \in 1..env.n_votes |->
                  env.capsule.vote_presence[ExV(i)][CapsV(i)][v]
                    * env.primary.presence[ExT(i)][v]]]
           /\ a.img_embedding = [i \in rows |-> env.primary.img_embedding[ExT(i)]]

C6_Witness ==
  /\ pc = "done"
  /\ cfg.vote_type = "enc"
  /\ cfg.pres_type = "hard"
  /\ DecodeCallOf("rec").args.pose = env.primary.pose
  /\ DecodeCallOf("top_down").args.pose = env.capsule.winner

\* C7: caps_presence_prob[b, c] is the maximum of vote_presence_prob over the
\* votes of capsule c in example b, and lies in [0, 1] whenever every
\* vote_presence_prob does
C7_CapsPresenceIsMax ==
  Past("decoder") =>
    LET vp == env.capsule.vote_presence
        cp == res.caps_presence_prob
    IN  /\ \A b \in 1..env.B, c \in 1..env.n_caps :
             /\ \E v \in 1..env.n_votes : cp[b][c] = vp[b][c][v]
             /\ \A v \in 1..env.n_votes : cp[b][c] >= vp[b][c][v]
        /\ (\A b \in 1..env.B, c \in 1..env.n_caps, v \in 1..env.n_votes :
               vp[b][c][v] \in 0..1)
             => \A b \in 1..env.B, c \in 1..env.n_caps : cp[b][c] \in 0..1

C7_Witness ==
  /\ Past("decoder")
  /\ env.B = 2 /\ env.n_caps = 2 /\ env.n_votes = 2
  /\ env.capsule.vote_presence = << << <<0, 1>>, <<0, 0>> >>, << <<1, 1>>, <<1, 0>> >> >>
  /\ res.caps_presence_prob = << <<1, 0>>, <<1, 1>> >>

EndsWith(name, suffix) ==
  /\ Len(name) >= Len(suffix)
  /\ SubSeq(name, Len(name) - Len(suffix) + 1, Len(name)) = suffix

C8_IsWeight(name) ==
  \/ EndsWith(name, <<"w", ":", "0">>)
  \/ EndsWith(name, <<"w", "e", "i", "g", "h", "t", "s", ":", "0">>)

C8_IsBias(name) ==
  \/ EndsWith(name, <<"b", ":", "0">>)
  \/ EndsWith(name, <<"b", "i", "a", "s", ":", "0">>)
  \/ EndsWith(name, <<"b", "i", "a", "s", "e", "s", ":", "0">>)

C8_WeightSum ==
  SumSeq([i \in 1..Len(env.variables) |->
            IF C8_IsWeight(env.variables[i].name) THEN env.variables[i].l2 ELSE 0])

C8_NonBiasSum ==
  SumSeq([i \in 1..Len(env.variables) |->
            IF C8_IsBias(env.variables[i].name) THEN 0 ELSE env.variables[i].l2])

\* C8: the trainable variables are traversed only when weight_decay > 0, and
\* then the weight-decay sum is the sum of the L2 terms of the variables with
\* a weight name, no bias among them; when weight decay is disabled or no
\* variable matches, the sum and its contribution to the loss are zero and
\* no error is raised
C8_WeightDecay ==
  LET wd == cfg.weights.weight_decay
  IN  /\ HasCall("trainable_variables") <=> (Past("weight_decay") /\ wd > 0)
      /\ Past("weight_decay") =>
           /\ err = "none"
           /\ (wd > 0 => /\ res.weight_decay_loss = C8_WeightSum
                         /\ res.weight_decay_loss <= C8_NonBiasSum)
           /\ (wd <= 0 \/ \A i \in 1..Len(env.variables) :
                             ~C8_IsWeight(env.variables[i].name))
                => /\ res.weight_decay_loss = 0
                   /\ wd * res.weight_decay_loss = 0

C8_Witness ==
  /\ pc = "loss"
  /\ cfg.weights.weight_decay = 1
  /\ env.variables = << Var(<<"l", "/", "w", ":", "0">>, 2),
                        Var(<<"b", "i", "a", "s", "e", "s", ":", "0">>, 1) >>
  /\ res.weight_decay_loss = 2

\* C9: in the per-capsule decode every row of the enlarged batch gets the part
\* presence, template feature and image embedding of the example its vote and
\* vote presence come from
C9_TiledContextOfOwnExample ==
  HasDecode("per_caps") =>
    LET a == DecodeCallOf("per_caps").args
    IN  \A i \in 1..Len(a.pose) :
          LET b == a.pose[i][1].ex
              c == a.pose[i][1].caps
          IN  /\ a.img_embedding[i] = env.primary.img_embedding[b]
              /\ (env.primary.feature # None =>
                    a.template_feature[i] = env.primary.feature[b])
              /\ \A v \in 1..env.n_votes :
                   a.presence[i][v] =
                     env.capsule.vote_presence[b][c][v] * env.primary.presence[b][v]

C10_Points(k) ==
  {bp \in (1..env.B) \X (1..env.n_votes) :
      env.capsule.is_from_capsule[bp[1]][bp[2]] = k}

C10_Counts ==
  pc = "done" =>
    /\ DOMAIN reports.votes_per_capsule = 0..(env.n_caps - 1)
    /\ \A k \in 0..(env.n_caps - 1) :
         /\ reports.votes_per_capsule[k].num = Cardinality(C10_Points(k))
         /\ reports.votes_per_capsule[k].den = env.B
    /\ SumSeq([j \in 1..env.n_caps |-> reports.votes_per_capsule[j - 1].num])
         <= env.n_votes * env.B

\* C10: votes_per_capsule_k is the batch average of the number of points
\* assigned to capsule k, a point assigned to -1 counts for no capsule, the
\* values sum to at most the number of points, and the report changes neither
\* the loss nor the result record
C10_VotesPerCapsule ==
  /\ []C10_Counts
  /\ [][pc = "report" => (res' = res /\ loss' = loss)]_vars

C10_Witness ==
  /\ pc = "done"
  /\ env.B = 2
  /\ env.capsule.is_from_capsule = << <<0 - 1, 0>>, <<0, 1>> >>
  /\ reports.votes_per_capsule[0] = [num |-> 2, den |-> 2]
  /\ reports.votes_per_capsule[1] = [num |-> 1, den |-> 2]


====
